---- MODULE Spec2Model ----
(***************************************************************************)
(* LuxFlex (src/src/main.rs): one slider drives the hardware brightness of *)
(* every display and the opacity of a full-screen overlay window; a tray   *)
(* icon thread sends ShowControls / Quit over a channel to the UI.         *)
(*                                                                         *)
(* Threads of the model:                                                   *)
(*   - the UI thread: new(), then update() for one message at a time;      *)
(*   - the tray thread spawned by main(): the two menu callbacks;          *)
(*   - the subscription stream, polled on the executor (executor::Default, *)
(*     a thread pool): receiver.recv() and the match on its result;        *)
(*   - the environment: monitors being plugged and unplugged.              *)
(***************************************************************************)
EXTENDS Integers, Sequences, FiniteSets, TLC

\* ---------------------------------------------------------------- bounds
MaxMon  == 2    \* logical monitors (HMONITOR) the OS can report
MaxPhys == 2    \* physical displays behind one logical monitor
MaxSent == 3    \* tray messages sent in one run

\* Slider values tried: Message::SliderChanged carries a u8, the widget's
\* range is 0..=100; both halves, the boundary and values past the range.
SliderValues == {0, 30, 50, 51, 80, 100, 102}

\* ----------------------------------------------------------- constants
NULL          == 0     \* ptr::null_mut()
monitor_count == 1     \* enum_monitor: the array size handed to the OS
CONTINUE      == 1     \* enum_monitor's return value
NoValue       == 0 - 1 \* "no slider event yet" / "nothing commanded"

MonIds   == 1..MaxMon
Displays == MonIds \X (1..MaxPhys)

VARIABLES
    procState,       \* "starting" | "running" | "aborted" | "exited"
    brightness,      \* LuxFlex.brightness
    dimmer_alpha,    \* LuxFlex.dimmer_alpha
    dimmer_hwnd,     \* LuxFlex.dimmer_hwnd
    window_visible,  \* LuxFlex.window_visible
    overlay,         \* the OS window behind dimmer_hwnd
    phys,            \* monitor -> physical displays behind it; -1: detached
    dispatch,        \* what the last set_brightness call did to the displays
    uiPc,            \* "idle" | "dimmer": position inside update_from_slider
    lastLevel,       \* the value of the last SliderChanged; NoValue if none
    repeated,        \* the event being handled carries the previous value
    sentLog,         \* every tray message sent so far, in send order
    chan,            \* the channel: indices into sentLog not yet received
    senderAlive,     \* the tray thread still holds the Sender
    consumerPc,      \* the subscription stream: "recv" | "done"
    uiQueue,         \* ToggleVisibility messages emitted, not yet updated
    applied          \* the toggles update() has applied, by sentLog index

vars == <<procState, brightness, dimmer_alpha, dimmer_hwnd, window_visible,
          overlay, phys, dispatch, uiPc, lastLevel, repeated, sentLog,
          chan, senderAlive, consumerPc, uiQueue, applied>>

uiVars     == <<brightness, dimmer_alpha, dimmer_hwnd, window_visible, overlay,
                dispatch, uiPc, lastLevel, repeated>>
bridgeVars == <<sentLog, chan, senderAlive, consumerPc, uiQueue, applied>>

\* ------------------------------------------------------ Intensity mapper
\* update_from_slider(value: i32): the argument of set_brightness.
MapBrightness_undoubled(value) ==
    IF value <= 50 THEN value ELSE 100

MapBrightness(value) ==
    IF value <= 50 THEN value * 2 ELSE 100

MapAlpha_unconditional(value) == ((value - 50) * 5) % 256

\* update_from_slider(value: i32): the argument of set_dimmer, an `as u8`.
MapAlpha(value) ==
    IF value <= 50 THEN 0 ELSE ((value - 50) * 5) % 256

\* -------------------------------------------------- Brightness dispatch
Attached == {m \in MonIds : phys[m] >= 0}

\* What the OS does with one monitor during one call: "nohandle" (no
\* handle is handed out: the monitor has no physical display, is not
\* DDC/CI capable, or the OS refuses an array shorter than the number of
\* physical displays), "reject" (the handle is handed out, the brightness
\* command fails) or "ok".
Outcomes == {"nohandle", "reject", "ok"}
CallEnvs ==
    {e \in [MonIds -> Outcomes] :
        \A m \in MonIds : phys[m] < 1 => e[m] = "nohandle"}

EmptyLog ==
    [value    |-> NoValue,
     visited  |-> <<>>,
     cmd      |-> [d \in Displays |-> <<>>],
     accepted |-> {},
     env      |-> [m \in MonIds |-> "nohandle"]]

\* GetPhysicalMonitorsFromHMONITOR(hmonitor, size, &array): TRUE when it
\* filled the array, which then holds the first `size` displays.
GetPhysicalMonitorsFromHMONITOR(m, size, e) ==
    /\ phys[m] >= 1
    /\ e # "nohandle"

\* The displays whose handles the filled array holds.
PhysicalMonitorArray(m, size) ==
    {<<m, k>> : k \in 1..(IF phys[m] < size THEN phys[m] ELSE size)}

\* SetMonitorBrightness(handle, value) on display d.
SetMonitorBrightness(d, value, e, log) ==
    [log EXCEPT !.cmd[d]   = Append(@, value),
                !.accepted = IF e = "reject" THEN @ ELSE @ \cup {d}]

EnumMonitorReturn_stopOnFailure(got) == IF got THEN CONTINUE ELSE 0

\* The value enum_monitor returns to EnumDisplayMonitors.
EnumMonitorReturn(got) == CONTINUE

enum_monitor(m, b, e, log) ==
    LET got  == GetPhysicalMonitorsFromHMONITOR(m, monitor_count, e)
        seen == [log EXCEPT !.visited = Append(@, m)]
    IN  [ret |-> EnumMonitorReturn(got),
         log |-> IF got
                 THEN LET d == CHOOSE x \in PhysicalMonitorArray(m, monitor_count) : TRUE
                      IN  SetMonitorBrightness(d, b, e, seen)
                 ELSE seen]

\* EnumDisplayMonitors: the callback for every attached monitor, in order,
\* until the callback returns 0.
RECURSIVE EnumDisplayMonitors(_, _, _, _)
EnumDisplayMonitors(m, b, env, log) ==
    IF m > MaxMon THEN log
    ELSE IF phys[m] < 0 THEN EnumDisplayMonitors(m + 1, b, env, log)
    ELSE LET r == enum_monitor(m, b, env[m], log)
         IN  IF r.ret = 0 THEN r.log
             ELSE EnumDisplayMonitors(m + 1, b, env, r.log)

set_brightness_recordOnSuccess(b, env) ==
    /\ dispatch' = EnumDisplayMonitors(1, b, env,
                       [EmptyLog EXCEPT !.value = b, !.env = env])
    /\ brightness' = IF dispatch'.accepted = {} THEN brightness ELSE b

\* set_brightness(value): enumerate, then record the value.
set_brightness(b, env) ==
    /\ dispatch' = EnumDisplayMonitors(1, b, env,
                       [EmptyLog EXCEPT !.value = b, !.env = env])
    /\ brightness' = b

\* The Result set_brightness returns, whatever the displays did.
SetBrightnessResult(log) == "Ok"

\* ----------------------------------------------------- Overlay controller
\* CreateWindowExW returning the non-null handle h: a layered,
\* input-transparent, topmost popup, not shown, its alpha not set yet.
CreateWindowExW(h) ==
    [created |-> TRUE, alpha |-> NoValue, shown |-> FALSE, transparent |-> TRUE]

SetLayeredWindowAttributes_restyling(w, alpha) ==
    [w EXCEPT !.alpha = alpha, !.transparent = FALSE]

\* SetLayeredWindowAttributes(hwnd, RGB(0, 0, 0), alpha, LWA_ALPHA)
SetLayeredWindowAttributes(w, alpha) == [w EXCEPT !.alpha = alpha]

ShowWindow_resetting(w, show) ==
    [w EXCEPT !.shown = show, !.alpha = IF show THEN @ ELSE 0]

\* ShowWindow(hwnd, SW_SHOW | SW_HIDE)
ShowWindow(w, show) == [w EXCEPT !.shown = show]

set_dimmer_showing(alpha) ==
    /\ overlay' = [overlay EXCEPT !.alpha = alpha, !.shown = alpha > 0]
    /\ dimmer_alpha' = alpha

set_dimmer_accumulating(alpha) ==
    /\ overlay' = SetLayeredWindowAttributes(overlay, (overlay.alpha + alpha) % 256)
    /\ dimmer_alpha' = (dimmer_alpha + alpha) % 256

set_dimmer(alpha) ==
    /\ overlay' = SetLayeredWindowAttributes(overlay, alpha)
    /\ dimmer_alpha' = alpha

\* create_dimmer_window, h being what CreateWindowExW returns.
create_dimmer_window(h) ==
    IF h = NULL
    THEN [result |-> "Err", window |-> overlay]
    ELSE [result |-> "Ok",
          window |-> ShowWindow(
                         SetLayeredWindowAttributes(CreateWindowExW(h), 0),
                         FALSE)]

Expect_ignoring(result) == "running"

\* `.expect(..)` on a Result: the process goes on, or panics.
Expect(result) == IF result = "Ok" THEN "running" ELSE "aborted"

\* ------------------------------------------------------------ UI thread
Executor_onUIThread == "ui_thread"

\* The subscription stream is polled on the executor's threads.
Executor == "thread_pool"

\* receiver.recv() is a blocking call: it holds its thread while the
\* channel is empty and a Sender is alive.
RecvBlocks == consumerPc = "recv" /\ chan = <<>> /\ senderAlive

UIThreadFree == ~(Executor = "ui_thread" /\ RecvBlocks)

\* LuxFlex::new; h is what CreateWindowExW returns.
new ==
    /\ procState = "starting"
    /\ \E h \in {NULL, 1} :
        LET r == create_dimmer_window(h)
        IN  /\ dimmer_hwnd' = h
            /\ overlay' = r.window
            /\ procState' = Expect(r.result)
    /\ UNCHANGED <<brightness, dimmer_alpha, window_visible, phys, dispatch,
                   uiPc, lastLevel, repeated>>
    /\ UNCHANGED bridgeVars

SliderChanged_dimmerFirst ==
    /\ procState = "running"
    /\ uiPc = "idle"
    /\ UIThreadFree
    /\ \E value \in SliderValues :
        /\ lastLevel' = value
        /\ repeated' = (value = lastLevel)
        /\ set_dimmer(MapAlpha(value))
    /\ uiPc' = "dimmer"
    /\ UNCHANGED <<procState, brightness, dispatch, dimmer_hwnd,
                   window_visible, phys>>
    /\ UNCHANGED bridgeVars

\* update(Message::SliderChanged(value)), up to the return of set_brightness.
SliderChanged ==
    /\ procState = "running"
    /\ uiPc = "idle"
    /\ UIThreadFree
    /\ \E value \in SliderValues :
        /\ lastLevel' = value
        /\ repeated' = (value = lastLevel)
        /\ \E env \in CallEnvs : set_brightness(MapBrightness(value), env)
    /\ procState' = Expect(SetBrightnessResult(dispatch'))
    /\ uiPc' = "dimmer"
    /\ UNCHANGED <<dimmer_alpha, dimmer_hwnd, window_visible, overlay, phys>>
    /\ UNCHANGED bridgeVars

\* ... and the set_dimmer call that ends update_from_slider.
SliderSetDimmer ==
    /\ procState = "running"
    /\ uiPc = "dimmer"
    /\ set_dimmer(MapAlpha(lastLevel))
    /\ uiPc' = "idle"
    /\ repeated' = FALSE
    /\ UNCHANGED <<procState, brightness, dimmer_hwnd, window_visible, phys,
                   dispatch, lastLevel>>
    /\ UNCHANGED bridgeVars

ToggleVisibility_inverted ==
    /\ procState = "running"
    /\ uiPc = "idle"
    /\ UIThreadFree
    /\ uiQueue # <<>>
    /\ window_visible' = ~window_visible
    /\ overlay' = ShowWindow(overlay, window_visible)
    /\ applied' = Append(applied, Head(uiQueue))
    /\ uiQueue' = Tail(uiQueue)
    /\ UNCHANGED <<procState, brightness, dimmer_alpha, dimmer_hwnd, phys,
                   dispatch, uiPc, lastLevel, repeated, sentLog, chan,
                   senderAlive, consumerPc>>

\* update(Message::ToggleVisibility) for the oldest emitted message.
ToggleVisibility ==
    /\ procState = "running"
    /\ uiPc = "idle"
    /\ UIThreadFree
    /\ uiQueue # <<>>
    /\ window_visible' = ~window_visible
    /\ overlay' = ShowWindow(overlay, window_visible')
    /\ applied' = Append(applied, Head(uiQueue))
    /\ uiQueue' = Tail(uiQueue)
    /\ UNCHANGED <<procState, brightness, dimmer_alpha, dimmer_hwnd, phys,
                   dispatch, uiPc, lastLevel, repeated, sentLog, chan,
                   senderAlive, consumerPc>>

\* The slider value view() hands to Slider::new.
view == brightness

\* ---------------------------------------------------------- tray thread
Alive == procState \in {"starting", "running"}

\* tx_clone.lock().unwrap().send(msg).unwrap() on the unbounded channel.
send(msg) ==
    /\ sentLog' = Append(sentLog, msg)
    /\ chan' = Append(chan, Len(sentLog) + 1)
    /\ UNCHANGED <<procState, phys, senderAlive, consumerPc, uiQueue, applied>>
    /\ UNCHANGED uiVars

\* The "Show/Hide Controls" menu item's callback.
MenuShowControls ==
    /\ Alive
    /\ senderAlive
    /\ Len(sentLog) < MaxSent
    /\ send("ShowControls")

\* The "Quit" menu item's callback.
MenuQuit ==
    /\ Alive
    /\ senderAlive
    /\ Len(sentLog) < MaxSent
    /\ send("Quit")

\* The tray thread's closure ends (wait_for_message returns or an unwrap
\* in it panics): the Sender is dropped with it.
SystrayThreadExit ==
    /\ Alive
    /\ senderAlive
    /\ senderAlive' = FALSE
    /\ UNCHANGED <<procState, phys, sentLog, chan, consumerPc, uiQueue, applied>>
    /\ UNCHANGED uiVars

\* --------------------------------------------------- subscription stream
\* What the stream does with a received message.
OnSystrayMessage(msg) ==
    IF msg = "ShowControls" THEN "ToggleVisibility" ELSE "exit"

recv_peeking(ch) == [msg |-> Head(ch), rest |-> ch]

\* receiver.recv() returning Ok: the oldest message leaves the channel.
\* The clone handed to the stream is a handle on the same channel.
recv(ch) == [msg |-> Head(ch), rest |-> Tail(ch)]

\* receiver.recv() returned Ok(msg).
SubscriptionRecv ==
    /\ procState = "running"
    /\ consumerPc = "recv"
    /\ chan # <<>>
    /\ chan' = recv(chan).rest
    /\ IF OnSystrayMessage(sentLog[recv(chan).msg]) = "exit"
       THEN /\ procState' = "exited"
            /\ uiQueue' = uiQueue
       ELSE /\ procState' = procState
            /\ uiQueue' = Append(uiQueue, recv(chan).msg)
    /\ UNCHANGED <<phys, sentLog, senderAlive, consumerPc, applied>>
    /\ UNCHANGED uiVars

OnDisconnected_exiting == "exit"

\* What the stream does when recv() returns Err (empty and disconnected).
OnDisconnected == "end"

SubscriptionClosed ==
    /\ procState = "running"
    /\ consumerPc = "recv"
    /\ chan = <<>>
    /\ ~senderAlive
    /\ IF OnDisconnected = "end"
       THEN consumerPc' = "done" /\ procState' = procState
       ELSE consumerPc' = consumerPc /\ procState' = "exited"
    /\ UNCHANGED <<phys, sentLog, chan, senderAlive, uiQueue, applied>>
    /\ UNCHANGED uiVars

\* ---------------------------------------------------------- environment
Attach ==
    /\ Alive
    /\ \E m \in MonIds, n \in 0..MaxPhys :
        /\ phys[m] < 0
        /\ phys' = [phys EXCEPT ![m] = n]
    /\ UNCHANGED <<procState>>
    /\ UNCHANGED uiVars
    /\ UNCHANGED bridgeVars

Detach ==
    /\ Alive
    /\ \E m \in MonIds :
        /\ phys[m] >= 0
        /\ phys' = [phys EXCEPT ![m] = NoValue]
    /\ UNCHANGED <<procState>>
    /\ UNCHANGED uiVars
    /\ UNCHANGED bridgeVars

\* -------------------------------------------------------- specifications
Init ==
    /\ procState = "starting"
    /\ brightness = 50
    /\ dimmer_alpha = 0
    /\ dimmer_hwnd = NULL
    /\ window_visible = FALSE
    /\ overlay = [created |-> FALSE, alpha |-> 0, shown |-> FALSE,
                  transparent |-> FALSE]
    /\ phys = [m \in MonIds |-> IF m = 1 THEN 1 ELSE NoValue]
    /\ dispatch = EmptyLog
    /\ uiPc = "idle"
    /\ lastLevel = NoValue
    /\ repeated = FALSE
    /\ sentLog = <<>>
    /\ chan = <<>>
    /\ senderAlive = TRUE
    /\ consumerPc = "recv"
    /\ uiQueue = <<>>
    /\ applied = <<>>

\* The whole program with its monitors as they were at startup.
Next ==
    \/ new
    \/ SliderChanged
    \/ SliderSetDimmer
    \/ ToggleVisibility
    \/ MenuShowControls
    \/ MenuQuit
    \/ SystrayThreadExit
    \/ SubscriptionRecv
    \/ SubscriptionClosed

Spec == Init /\ [][Next]_vars

\* The UI thread and the displays, monitors coming and going, the tray idle.
NextDisplay ==
    \/ new
    \/ SliderChanged
    \/ SliderSetDimmer
    \/ Attach
    \/ Detach

SpecDisplay == Init /\ [][NextDisplay]_vars
\* ================================================================ claims
Range(q) == {q[i] : i \in 1..Len(q)}

\* The mapping as the specification words it.
SpecBrightness(level) == IF level <= 50 THEN 2 * level ELSE 100
SpecAlpha(level)      == IF level <= 50 THEN 0 ELSE 5 * (level - 50)

\* The brightness values the last set_brightness call handed to displays.
Commanded == UNION {Range(dispatch.cmd[d]) : d \in Displays}

\* A step that is the set_brightness half of a slider event.
DispatchStep == uiPc = "idle" /\ uiPc' = "dimmer"

\* C1: for every level in 0..100 a SliderChanged(level) event commands and
\* records brightness 2*level and alpha 0 when level <= 50, and brightness
\* 100 and alpha 5*(level-50) when level > 50; level 50 gives (100, 0),
\* level 51 gives (100, 5), and both formulas give (100, 0) at 50.
C1_PiecewiseMapping ==
    /\ \A level \in 0..100 :
          /\ MapBrightness(level) = SpecBrightness(level)
          /\ MapAlpha(level) = SpecAlpha(level)
    /\ <<MapBrightness(50), MapAlpha(50)>> = <<100, 0>>
    /\ <<MapBrightness(51), MapAlpha(51)>> = <<100, 5>>
    /\ <<2 * 50, 5 * (50 - 50)>> = <<100, 0>>
    /\ (lastLevel \in 0..100 /\ procState = "running") =>
          /\ brightness = SpecBrightness(lastLevel)
          /\ dispatch.value = SpecBrightness(lastLevel)
          /\ Commanded \subseteq {SpecBrightness(lastLevel)}
          /\ uiPc = "idle" =>
                /\ dimmer_alpha = SpecAlpha(lastLevel)
                /\ overlay.alpha = SpecAlpha(lastLevel)

C1_Witness ==
    /\ uiPc = "idle"
    /\ lastLevel = 51
    /\ <<brightness, dimmer_alpha, overlay.alpha>> = <<100, 5, 5>>
    /\ dispatch.cmd[<<1, 1>>] = <<100>>

\* C3: once SliderChanged(level) has been processed, the slider that view()
\* builds on the next redraw shows level, for every level in 0..100.
C3_SliderShowsLevel ==
    (procState = "running" /\ uiPc = "idle" /\ lastLevel \in 0..100)
        => view = lastLevel

\* C4: a set_brightness(b) call issues the command with value b exactly
\* once to every physical display attached when it is called (stated here
\* for the monitors whose handles the OS hands out during the call).
C4_EveryPhysicalDisplayOnce ==
    [][DispatchStep =>
         \A m \in Attached :
             dispatch'.env[m] # "nohandle" =>
                 \A k \in 1..phys[m] : dispatch'.cmd[<<m, k>>] = <<brightness'>>
      ]_vars

\* C5: whatever subset of the monitors fails during a set_brightness call,
\* the callback is run for every attached monitor, every monitor that does
\* not fail receives the command, and the slider event neither panics nor
\* ends the process.
C5_FaultIsolation ==
    [][DispatchStep =>
         /\ Range(dispatch'.visited) = Attached
         /\ Len(dispatch'.visited) = Cardinality(Attached)
         /\ \A m \in Attached :
               dispatch'.env[m] = "ok" =>
                   /\ dispatch'.cmd[<<m, 1>>] = <<brightness'>>
                   /\ <<m, 1>> \in dispatch'.accepted
         /\ SetBrightnessResult(dispatch') = "Ok"
         /\ procState' = "running"
      ]_vars

C5_Witness ==
    /\ uiPc = "dimmer"
    /\ dispatch.visited = <<1, 2>>
    /\ dispatch.env[1] = "reject"
    /\ dispatch.env[2] = "ok"
    /\ dispatch.accepted = {<<2, 1>>}

\* ---------------------------------------------------------------- bridge
Emitted   == Len(applied) + Len(uiQueue)
QuitSent  == "Quit" \in Range(sentLog)
SliderStep == uiPc' # uiPc
ToggleStep == applied' # applied

\* C2: with ShowControls, ShowControls, Quit sent in that order, exactly two
\* ToggleVisibility updates have been applied, in send order, when the
\* process terminates.
C2_TwoTogglesBeforeExit ==
    (sentLog = <<"ShowControls", "ShowControls", "Quit">> /\ procState = "exited")
        => applied = <<1, 2>>

\* C6: between events the overlay alpha is the alpha of the last
\* SliderChanged (0 before the first) and the overlay is shown exactly when
\* an odd number of ToggleVisibility events has been processed, whatever
\* the order in which slider and toggle events arrived.
C6_AlphaVisibilityIndependent ==
    (procState = "running" /\ uiPc = "idle") =>
        /\ overlay.alpha = (IF lastLevel = NoValue THEN 0 ELSE MapAlpha(lastLevel))
        /\ dimmer_alpha = overlay.alpha
        /\ overlay.shown = (Len(applied) % 2 = 1)
        /\ window_visible = overlay.shown

C6_Witness ==
    /\ procState = "running"
    /\ uiPc = "idle"
    /\ lastLevel = 80
    /\ Len(applied) = 1
    /\ overlay.alpha = 150
    /\ overlay.shown

\* C7: a slider event leaves window_visible and the overlay's shown state
\* as they were, hidden or visible; a ToggleVisibility event leaves the
\* recorded brightness, the recorded alpha, the overlay's alpha and the
\* displays as they were.
C7_VisibilityOnlyByToggle ==
    [][/\ SliderStep =>
             /\ window_visible' = window_visible
             /\ overlay'.shown = overlay.shown
       /\ ToggleStep =>
             /\ brightness' = brightness
             /\ dimmer_alpha' = dimmer_alpha
             /\ overlay'.alpha = overlay.alpha
             /\ dispatch' = dispatch
      ]_vars

C7_Witness ==
    /\ uiPc = "idle"
    /\ overlay.shown
    /\ overlay.alpha = 250
    /\ applied = <<1>>
    /\ lastLevel = 100

\* C8: the first running state has a non-null handle, overlay alpha 0, the
\* overlay not shown and window_visible false; when surface creation fails
\* the process aborts, and no slider or control event is ever processed
\* with a null handle.
C8_StartupHiddenOrAbort ==
    /\ (procState = "running" /\ lastLevel = NoValue /\ applied = <<>>) =>
          /\ dimmer_hwnd # NULL
          /\ overlay.created
          /\ overlay.alpha = 0
          /\ dimmer_alpha = 0
          /\ ~overlay.shown
          /\ ~window_visible
    /\ (dimmer_hwnd = NULL /\ procState # "starting") => procState = "aborted"
    /\ (lastLevel # NoValue \/ Emitted > 0 \/ consumerPc = "done") =>
          dimmer_hwnd # NULL

C8_Witness ==
    /\ procState = "running"
    /\ lastLevel = NoValue
    /\ applied = <<>>
    /\ chan # <<>>
    /\ dimmer_hwnd # NULL

\* C9 as stated: once every producer is dropped with no Quit sent, no
\* further ToggleVisibility is produced.
C9_NoToggleAfterDrop ==
    [][(~senderAlive /\ ~QuitSent) => Emitted' = Emitted]_vars

\* C9 as amended: once every producer is dropped with no Quit sent the
\* process is never terminated and slider events stay possible; once the
\* channel is also empty no further ToggleVisibility is produced; and once
\* none is waiting to be applied the visibility stays as it is and the
\* recorded values change by slider events only.
C9_ClosedChannelDrains ==
    /\ []((~senderAlive /\ ~QuitSent /\ procState = "running")
             => ENABLED (SliderChanged \/ SliderSetDimmer))
    /\ [][(~senderAlive /\ ~QuitSent /\ procState = "running") =>
             /\ procState' = "running"
             /\ chan = <<>> => Emitted' = Emitted
             /\ (chan = <<>> /\ uiQueue = <<>>) =>
                   /\ window_visible' = window_visible
                   /\ overlay'.shown = overlay.shown
                   /\ ~SliderStep =>
                         <<brightness, dimmer_alpha, overlay, dispatch>>' =
                         <<brightness, dimmer_alpha, overlay, dispatch>>
          ]_vars

C9_Witness ==
    /\ ~senderAlive
    /\ ~QuitSent
    /\ consumerPc = "done"
    /\ applied = <<1>>
    /\ lastLevel = 30
    /\ uiPc = "idle"

Clamp(level) == IF level > 100 THEN 100 ELSE level

C12_SliderEventIdempotent ==
    [][/\ (DispatchStep /\ lastLevel' = lastLevel /\ lastLevel \in 0..100) =>
             /\ repeated'
             /\ brightness' = brightness
             /\ dispatch'.value = dispatch.value
             /\ \A d \in dispatch'.accepted :
                   dispatch'.cmd[d] = <<dispatch.value>>
             /\ window_visible' = window_visible
       /\ (uiPc = "dimmer" /\ uiPc' = "idle" /\ repeated
             /\ lastLevel \in 0..100) =>
             /\ dimmer_alpha' = dimmer_alpha
             /\ overlay' = overlay
             /\ brightness' = brightness
             /\ window_visible' = window_visible
      ]_vars

C12_Witness ==
    /\ uiPc = "dimmer"
    /\ repeated
    /\ lastLevel = 80
    /\ dimmer_alpha = 150
    /\ dispatch.accepted = {<<1, 1>>, <<2, 1>>}

\* ---------------------------------------------------- at-most-once bridge
\* The toggles emitted so far, applied or not, by sentLog index.
EmittedLog == applied \o uiQueue
ShowControlsSent == {i \in 1..Len(sentLog) : sentLog[i] = "ShowControls"}
QuitsSent        == {i \in 1..Len(sentLog) : sentLog[i] = "Quit"}

\* C13: every control message is consumed at most once: the toggles applied
\* are at most the ShowControls sent, each comes from a ShowControls, they
\* are applied in send order, and no ShowControls sent after a consumed
\* Quit produces a toggle.
C13_ConsumedAtMostOnce ==
    /\ Len(applied) <= Cardinality(ShowControlsSent)
    /\ Range(EmittedLog) \subseteq ShowControlsSent
    /\ \A i, j \in 1..Len(EmittedLog) : i < j => EmittedLog[i] < EmittedLog[j]
    /\ \A i \in 1..Len(chan) : \A e \in Range(EmittedLog) : e < chan[i]
    /\ \A q \in QuitsSent \ Range(chan) :
          /\ procState = "exited"
          /\ \A e \in Range(EmittedLog) : e < q

C13_Witness ==
    /\ procState = "exited"
    /\ sentLog = <<"ShowControls", "Quit", "ShowControls">>
    /\ applied = <<1>>
    /\ chan = <<3>>

\* ------------------------------------------------- order inside a handler
\* A step that is the set_dimmer half of a slider event.
DimmerStep == uiPc = "dimmer" /\ uiPc' = "idle"

\* C14: on every slider event the brightness is dispatched and recorded
\* before the overlay alpha is set: while an event is being handled the
\* brightness is already that of its value, the set_brightness half leaves
\* the alpha alone, and the alpha is set with the brightness in place.
C14_BrightnessBeforeAlpha ==
    [][/\ ((procState' = "running" /\ uiPc' = "dimmer") =>
              /\ brightness' = MapBrightness(lastLevel')
              /\ dispatch'.value = MapBrightness(lastLevel'))
       /\ (DispatchStep =>
              /\ dimmer_alpha' = dimmer_alpha
              /\ overlay' = overlay)
       /\ (DimmerStep =>
              /\ brightness = MapBrightness(lastLevel)
              /\ brightness' = brightness
              /\ dispatch' = dispatch
              /\ dimmer_alpha' = MapAlpha(lastLevel)
              /\ overlay'.alpha = MapAlpha(lastLevel))
      ]_vars

C14_Witness ==
    /\ uiPc = "dimmer"
    /\ lastLevel = 30
    /\ brightness = 60
    /\ dispatch.value = 60
    /\ dimmer_alpha = 250
    /\ overlay.alpha = 250

\* ------------------------------------------------- the overlay's lifetime
\* C15: the overlay is created once, at startup, and is permanent: while
\* the program runs dimmer_hwnd is non-null and the window exists with its
\* input-transparent style, and no step after startup (slider, toggle, tray
\* or stream) changes the handle, the window's existence or that style.
C15_OverlayPermanent ==
    [][/\ (procState' = "running" =>
              /\ dimmer_hwnd' # NULL
              /\ overlay'.created
              /\ overlay'.transparent)
       /\ (procState = "running" =>
              /\ dimmer_hwnd' = dimmer_hwnd
              /\ overlay'.created = overlay.created
              /\ overlay'.transparent = overlay.transparent)
      ]_vars

C15_Witness ==
    /\ procState = "running"
    /\ uiPc = "idle"
    /\ lastLevel = 100
    /\ Len(applied) = 3
    /\ dimmer_hwnd = 1
    /\ overlay.created
    /\ overlay.transparent
    /\ overlay.shown
    /\ overlay.alpha = 250

\* ------------------------------------------------------------ no history
\* C16: between events the recorded pair (brightness, dimmer_alpha) is
\* the initial (50, 0) while no slider event has been processed, and
\* afterwards what update_from_slider computes from the most recent slider
\* value alone, whatever the earlier values, the toggles and the displays'
\* failures were; for a level in 0..100 that is the specified mapping.
C16_NoHistory ==
    (procState = "running" /\ uiPc = "idle") =>
        IF lastLevel = NoValue
        THEN <<brightness, dimmer_alpha>> = <<50, 0>>
        ELSE /\ <<brightness, dimmer_alpha>> =
                    <<MapBrightness(lastLevel), MapAlpha(lastLevel)>>
             /\ (lastLevel \in 0..100 =>
                    <<brightness, dimmer_alpha>> =
                        <<SpecBrightness(lastLevel), SpecAlpha(lastLevel)>>)

C16_Witness ==
    /\ procState = "running"
    /\ uiPc = "idle"
    /\ lastLevel = 30
    /\ <<brightness, dimmer_alpha>> = <<60, 0>>
    /\ dispatch.value = 60
    /\ dispatch.accepted = {}
    /\ Len(applied) = 1

\* --------------------------------------------- overlay only at full power
\* C17: between events the overlay darkens only while the hardware is at
\* its maximum: the recorded brightness is 100 or the recorded dimmer_alpha
\* is 0, after any slider values (those above 100 included) and toggles.
C17_DimOnlyAtMaxBrightness ==
    (procState = "running" /\ uiPc = "idle") =>
        (brightness = 100 \/ dimmer_alpha = 0)

C17_Witness ==
    /\ procState = "running"
    /\ uiPc = "idle"
    /\ lastLevel = 102
    /\ brightness = 100
    /\ dimmer_alpha = 4
    /\ Len(applied) = 2

\* ------------------------------------------------- the flag and the window
\* C18: while the program runs, the flag window_visible and the overlay's
\* shown state agree, and both are true exactly when the number of
\* ToggleVisibility messages update() has processed is odd.
C18_FlagTracksOverlay ==
    procState = "running" =>
        /\ window_visible = overlay.shown
        /\ window_visible = (Len(applied) % 2 = 1)

C18_Witness ==
    /\ procState = "running"
    /\ uiPc = "dimmer"
    /\ lastLevel = 51
    /\ Len(applied) = 3
    /\ window_visible
    /\ overlay.shown
====
